---- MODULE Spec2Model ----
(***************************************************************************)
(* Enable-RDP-Bot: the remediation engine.                                 *)
(*                                                                         *)
(* Two front-ends act on one virtual machine and the rule set of the       *)
(* network security group (NSG) attached to its first network interface:   *)
(*   - the command-line tool  enable_rdp_bot.py  (AzureRDPTroubleshooter), *)
(*   - the chat agents  src/agents/*.py  behind  MainAgent.process_request.*)
(* The machine has one network interface with an NSG attached.  Rule       *)
(* priorities are integers; the source's  None  is the value  None  below. *)
(***************************************************************************)
EXTENDS Integers, Sequences, FiniteSets, TLC

VARIABLES
    power,      \* power state of the machine as Azure reports it
    rules,      \* security rules of the NSG, unique by name
    cliPre,     \* power state and rule set at the start of the last operation
    report,     \* report returned by the last command-line run
    writes,     \* writes issued by the last operation, in order
    lastFix,    \* outcome of the last fix_nsg_rdp_rule call
    prevFix,    \* outcome of the fix_nsg_rdp_rule call right before it
    history,    \* chat history of the conversation: the message texts
    agent,      \* what the last execute_resolution call planned and did
    store,      \* items of the conversation in the conversation store
    request,    \* what the last process_request call did and returned
    bot         \* AzureSupportBot: its sessions and the runs in progress

cliVars == <<power, rules, cliPre, report, writes, lastFix, prevFix>>
agentVars == <<history, agent>>
vars == <<power, rules, cliPre, report, writes, lastFix, prevFix,
          history, agent, store, request, bot>>

----------------------------------------------------------------------------
(* Bounds of the model *)

MaxRules == 2       \* rules in the NSG at the start
MaxInitHistory == 2 \* messages of the conversation that carry advice
MaxConfirms == 1    \* confirmation requests in one conversation
MaxPlan == 2        \* actions of a plan handed to the safety gate
MaxRequests == 2    \* requests the main agent processes in one conversation
MaxChats == 1       \* chat requests between command-line runs

(* Program constants *)

None == 0                   \* Python's None for an absent priority
MinPriority == 100          \* lowest legal NSG priority
DefaultPriority == 500      \* default priority of the allow rule
PluginPriority == 1000      \* priority written by the chat agents' plugin

ManagedName == "AllowRDP"

----------------------------------------------------------------------------
(* The rule sets the model starts from *)

NameSeq == <<"AllowRDP", "DenyRDP", "Custom", "Extra">>
RuleNames == {NameSeq[i] : i \in 1..(IF MaxRules < 4 THEN MaxRules ELSE 4)}
Priorities == {100, 101, 200, 1000}
PowerStates == {"running", "stopped", "deallocated"}

\* rules on port 3389, inbound: the ones the resolver looks at
MatchingBodies ==
    [access : {"Allow", "Deny"}, direction : {"Inbound"},
     port : {"3389"}, priority : Priorities]
    \cup [access : {"Allow", "Deny"}, direction : {"Inbound"},
          port : {"ranges3389"}, priority : {200}]
\* rules the resolver must ignore: outbound, or another port
OtherBodies ==
    [access : {"Allow", "Deny"}, direction : {"Outbound"},
     port : {"3389"}, priority : {100}]
    \cup [access : {"Allow", "Deny"}, direction : {"Inbound"},
          port : {"80"}, priority : {100}]
    \cup [access : {"Allow"}, direction : {"Inbound"},
          port : {"*"}, priority : {100}]
Absent == [access |-> "none", direction |-> "none", port |-> "none",
           priority |-> 0]
RuleBodies == MatchingBodies \cup OtherBodies

Named(n, b) == [name |-> n, access |-> b.access, direction |-> b.direction,
                port |-> b.port, priority |-> b.priority]
RuleSetOf(f) == {Named(n, f[n]) : n \in {m \in DOMAIN f : f[m] # Absent}}
InitialRuleSets ==
    {RuleSetOf(f) : f \in [RuleNames -> RuleBodies \cup {Absent}]}

Max(a, b) == IF a >= b THEN a ELSE b
Min(a, b) == IF a <= b THEN a ELSE b
MinOf(S) == CHOOSE p \in S : \A q \in S : p <= q

----------------------------------------------------------------------------
(* enable_rdp_bot.py: the NSG conflict resolver *)

\* destination_port_range == '3389' or '3389' in destination_port_ranges
HasRdp(r) == r.port \in {"3389", "ranges3389"}

AllowPriorities(rs) ==
    {r.priority : r \in {x \in rs : HasRdp(x) /\ x.access = "Allow"
                                     /\ x.direction = "Inbound"}}
DenyPriorities(rs) ==
    {r.priority : r \in {x \in rs : HasRdp(x) /\ x.access = "Deny"
                                     /\ x.direction = "Inbound"}}

\* the resolver with the conflict test written  <=  instead of  <
CheckNsgRules_Le(rs) ==
    LET allow == AllowPriorities(rs)
        deny == DenyPriorities(rs)
        allow_priority == IF allow = {} THEN None ELSE MinOf(allow)
        deny_priority == IF deny = {} THEN None ELSE MinOf(deny)
    IN  [error |-> FALSE,
         rdp_allowed |-> allow # {},
         rdp_conflict |-> /\ allow_priority # None
                          /\ deny_priority # None
                          /\ deny_priority <= allow_priority,
         allow_priority |-> allow_priority,
         deny_priority |-> deny_priority,
         has_deny_rdp |-> deny # {}]

CheckNsgRules(rs) ==
    LET allow == AllowPriorities(rs)
        deny == DenyPriorities(rs)
        allow_priority == IF allow = {} THEN None ELSE MinOf(allow)
        deny_priority == IF deny = {} THEN None ELSE MinOf(deny)
    IN  [error |-> FALSE,
         rdp_allowed |-> allow # {},
         rdp_conflict |-> /\ allow_priority # None
                          /\ deny_priority # None
                          /\ deny_priority < allow_priority,
         allow_priority |-> allow_priority,
         deny_priority |-> deny_priority,
         has_deny_rdp |-> deny # {}]

NsgError ==
    [error |-> TRUE, rdp_allowed |-> FALSE, rdp_conflict |-> FALSE,
     allow_priority |-> None, deny_priority |-> None, has_deny_rdp |-> FALSE]

\* the target priority without the floor of 100
FixTargetPriority_NoFloor(rs, desired_priority) ==
    LET target_priority ==
            IF desired_priority # None THEN desired_priority
            ELSE DefaultPriority
        deny == DenyPriorities(rs)
    IN  IF deny # {}
        THEN Min(MinOf(deny) - 1, target_priority)
        ELSE target_priority

\* the target priority set below every matching rule, allow rules included
FixTargetPriority_AnyRule(rs, desired_priority) ==
    LET target_priority ==
            IF desired_priority # None THEN desired_priority
            ELSE DefaultPriority
        any == DenyPriorities(rs) \cup AllowPriorities(rs)
    IN  IF any # {}
        THEN Max(MinPriority, Min(MinOf(any) - 1, target_priority))
        ELSE target_priority

\* priority that fix_nsg_rdp_rule writes for the allow rule
FixTargetPriority(rs, desired_priority) ==
    LET target_priority ==
            IF desired_priority # None THEN desired_priority
            ELSE DefaultPriority
        deny == DenyPriorities(rs)
    IN  IF deny # {}
        THEN Max(MinPriority, Min(MinOf(deny) - 1, target_priority))
        ELSE target_priority

\* troubleshoot_rdp leaving desired_priority unset
DesiredPriority_Unset(nsg_info) == None

\* desired_priority that troubleshoot_rdp hands to fix_nsg_rdp_rule
DesiredPriority(nsg_info) ==
    IF nsg_info.deny_priority # None
    THEN Max(MinPriority, nsg_info.deny_priority - 1)
    ELSE None

AllowRule(p) ==
    [name |-> ManagedName, access |-> "Allow", direction |-> "Inbound",
     port |-> "3389", priority |-> p]

\* security_rules.begin_create_or_update: create or replace the rule by name
UpsertRule(rs, rule) == {r \in rs : r.name # rule.name} \cup {rule}

NoReport == [status |-> "none", power_state |-> "Unknown",
             nsg_info |-> NsgError, fixes |-> <<>>]
NoRequest == [n |-> 0, user_input |-> {}, status |-> "none", reason |-> "",
              safe |-> TRUE, warnings |-> <<>>, classified |-> FALSE,
              store_reads |-> 0, store_writes |-> 0, collectors |-> <<>>,
              actions |-> <<>>, store_before |-> <<>>, fields |-> {},
              classification |-> "", issue_type |-> "", handler |-> "",
              diag |-> "", failed |-> {}]
NoAgent == [n |-> 0, status |-> "none", plan |-> <<>>, permissions |-> {},
            safe |-> TRUE, reason |-> "", blocked_actions |-> <<>>,
            authorized_actions |-> <<>>,
            actions |-> <<>>, success |-> FALSE, overall_status |-> "none",
            success_count |-> 0, failure_count |-> 0]
\* simple_agent.py: no session started, no run in progress
MaxRuns == 2
MaxClock == 2
TicksPerSecond == 2
Checks == <<"VM Status", "RDP Port", "VM Connectivity">>
NoRun == [pc |-> "idle", session_id |-> -1, returned |-> -1,
          tasks |-> [i \in 1..Len(Checks) |-> "pending"],
          diagnostics |-> <<>>, status |-> "none", resolution |-> FALSE]
NoBot == [clock |-> 0,
          active_sessions |-> [id \in 0..(MaxClock \div TicksPerSecond) |-> 0],
          runs |-> [r \in 1..MaxRuns |-> NoRun]]
NoFix == [impl |-> "none", desired |-> None, ok |-> FALSE, priority |-> None,
          action |-> "none", clash |-> FALSE]

\* a deny rule carries the name of the managed allow rule
NameClash(rs) == \E r \in rs : r.name = ManagedName /\ r.access = "Deny"

----------------------------------------------------------------------------
(* src/safety/guardrails.py: the safety gate *)

\* action_permissions of _check_action_authorization
ActionPermissions ==
    [start_vm |-> {"Microsoft.Compute/virtualMachines/start/action"},
     stop_vm |-> {"Microsoft.Compute/virtualMachines/powerOff/action"},
     restart_vm |-> {"Microsoft.Compute/virtualMachines/restart/action"},
     update_nsg_rules |-> {"Microsoft.Network/networkSecurityGroups/write"},
     configure_firewall |->
         {"Microsoft.Compute/virtualMachines/runCommand/action"},
     start_rdp_service |->
         {"Microsoft.Compute/virtualMachines/runCommand/action"}]

\* the gate letting every unmapped action kind through
CheckActionAuthorization_Open(action, user_permissions) ==
    LET required_permissions ==
            IF action \in DOMAIN ActionPermissions
            THEN ActionPermissions[action] ELSE {}
    IN  IF required_permissions = {} THEN TRUE
        ELSE \E required \in required_permissions :
                 required \in user_permissions

\* _check_action_authorization
CheckActionAuthorization(action, user_permissions) ==
    LET required_permissions ==
            IF action \in DOMAIN ActionPermissions
            THEN ActionPermissions[action] ELSE {}
    IN  IF required_permissions = {} THEN FALSE
        ELSE \E required \in required_permissions :
                 required \in user_permissions

\* the gate passing a plan as soon as one of its actions is authorized
ValidateResolutionActions_Partial(plan, user_permissions) ==
    LET Blocked(a) == ~CheckActionAuthorization(a, user_permissions)
        Authorized(a) == CheckActionAuthorization(a, user_permissions)
        blocked_actions == SelectSeq(plan, Blocked)
        authorized_actions == SelectSeq(plan, Authorized)
    IN  [safe |-> authorized_actions # <<>> \/ blocked_actions = <<>>,
         reason |-> IF blocked_actions # <<>>
                    THEN "Some actions blocked due to insufficient permissions"
                    ELSE "",
         blocked_actions |-> blocked_actions,
         authorized_actions |-> authorized_actions]

\* validate_resolution_actions: every action of the plan is checked
ValidateResolutionActions(plan, user_permissions) ==
    LET Blocked(a) == ~CheckActionAuthorization(a, user_permissions)
        Authorized(a) == CheckActionAuthorization(a, user_permissions)
        blocked_actions == SelectSeq(plan, Blocked)
    IN  [safe |-> blocked_actions = <<>>,
         reason |-> IF blocked_actions # <<>>
                    THEN "Some actions blocked due to insufficient permissions"
                    ELSE "",
         blocked_actions |-> blocked_actions,
         authorized_actions |-> SelectSeq(plan, Authorized)]

----------------------------------------------------------------------------
(* src/agents/resolution_agent.py: plan, gate, execution, validation *)

\* A message text is the set of the phrases it contains, lower-cased: the
\* code only asks a text whether it contains a phrase.
ConfirmWords == {"yes", "proceed", "execute", "fix", "resolve", "apply"}

\* the actions one message contributes, in the order the code appends them
MessageActions(content) ==
    IF "recommended actions" \in content \/ "recommended_actions" \in content
    THEN (IF "start the vm" \in content THEN <<"start_vm">> ELSE <<>>)
         \o (IF "nsg rule" \in content /\ "rdp" \in content
             THEN <<"update_nsg_rules">> ELSE <<>>)
         \o (IF "firewall" \in content
             THEN <<"configure_firewall">> ELSE <<>>)
         \o (IF "rdp service" \in content
             THEN <<"start_rdp_service">> ELSE <<>>)
    ELSE <<>>

\* reversed(conversation_history.messages[-10:]), newest message first
RECURSIVE RecommendedActions(_, _, _)
RecommendedActions(messages, i, first) ==
    IF i < first THEN <<>>
    ELSE MessageActions(messages[i])
         \o RecommendedActions(messages, i - 1, first)

RecentWindow == 10

\* the plan returned whether or not the user confirmed
ExtractResolutionPlan_NoConfirm(user_input, messages) ==
    LET n == Len(messages)
        first == IF n > RecentWindow THEN n - RecentWindow + 1 ELSE 1
    IN  RecommendedActions(messages, n, first)

\* _extract_resolution_plan; <<>> stands for None
ExtractResolutionPlan(user_input, messages) ==
    LET n == Len(messages)
        first == IF n > RecentWindow THEN n - RecentWindow + 1 ELSE 1
        recommended_actions == RecommendedActions(messages, n, first)
        user_confirmation == user_input \cap ConfirmWords # {}
    IN  IF recommended_actions # <<>> /\ user_confirmation
        THEN recommended_actions ELSE <<>>

DescriptionText(action) ==
    CASE action = "start_vm" -> {"start the vm"}
      [] action = "update_nsg_rules" -> {"nsg rule", "rdp"}
      [] action = "configure_firewall" -> {"firewall", "rdp"}
      [] OTHER -> {}

----------------------------------------------------------------------------
Init ==
    /\ power \in PowerStates
    /\ rules \in InitialRuleSets
    /\ cliPre = [power |-> power, rules |-> rules]
    /\ report = NoReport
    /\ writes = <<>>
    /\ lastFix = NoFix
    /\ prevFix = NoFix
    /\ history = <<>>
    /\ agent = NoAgent
    /\ store = <<>>
    /\ request = NoRequest
    /\ bot = NoBot

\* the body of fix_nsg_rdp_rule: the fix record, the write and the new rules
FixOutcome(rs, desired_priority, readOk, writeOk) ==
    LET p == FixTargetPriority(rs, desired_priority)
        existing_allow == \E r \in rs : HasRdp(r) /\ r.direction = "Inbound"
                                         /\ r.access = "Allow"
    IN  IF ~readOk
        THEN [fix |-> [impl |-> "cli", desired |-> desired_priority,
                       ok |-> FALSE, priority |-> None,
                       action |-> "nsg_rule_failed", clash |-> NameClash(rs)],
              writes |-> <<>>, rules |-> rs]
        ELSE [fix |-> [impl |-> "cli", desired |-> desired_priority,
                       ok |-> writeOk, priority |-> p,
                       clash |-> NameClash(rs),
                       action |-> IF ~writeOk THEN "nsg_rule_failed"
                                  ELSE IF existing_allow
                                       THEN "nsg_rule_updated"
                                       ELSE "nsg_rule_added"],
              writes |-> <<[kind |-> "upsert", priority |-> p,
                            ok |-> writeOk]>>,
              rules |-> IF writeOk THEN UpsertRule(rs, AllowRule(p)) ELSE rs]

\* fix_nsg_rdp_rule(desired_priority), called on its own
FixNsgRdpRule(desired_priority, readOk, writeOk) ==
    LET out == FixOutcome(rules, desired_priority, readOk, writeOk)
    IN  /\ cliPre' = [power |-> power, rules |-> rules]
        /\ rules' = out.rules
        /\ writes' = out.writes
        /\ prevFix' = lastFix
        /\ lastFix' = out.fix
        /\ UNCHANGED <<power, report, history, agent, store, request,
                       bot>>

\* network_checks.py add_rdp_nsg_rule: create the rule unless one of that
\* name exists
AddRdpNsgRule(rs, readOk, writeOk) ==
    LET existing == {r \in rs : r.name = ManagedName}
        base == [impl |-> "plugin", desired |-> PluginPriority,
                 clash |-> NameClash(rs)]
    IN  IF ~readOk
        THEN [fix |-> base @@ [ok |-> FALSE, priority |-> None,
                               action |-> "nsg_rule_failed"],
              writes |-> <<>>, rules |-> rs]
        ELSE IF existing # {}
        THEN [fix |-> base @@ [ok |-> TRUE,
                               priority |-> (CHOOSE r \in existing : TRUE).priority,
                               action |-> "already_exists"],
              writes |-> <<>>, rules |-> rs]
        ELSE [fix |-> base @@ [ok |-> writeOk, priority |-> PluginPriority,
                               action |-> IF writeOk THEN "created"
                                          ELSE "nsg_rule_failed"],
              writes |-> <<[kind |-> "upsert", priority |-> PluginPriority,
                            ok |-> writeOk]>>,
              rules |-> IF writeOk
                        THEN UpsertRule(rs, AllowRule(PluginPriority))
                        ELSE rs]

\* add_rdp_nsg_rule, called on its own
AddRule(readOk, writeOk) ==
    LET out == AddRdpNsgRule(rules, readOk, writeOk)
    IN  /\ cliPre' = [power |-> power, rules |-> rules]
        /\ rules' = out.rules
        /\ writes' = out.writes
        /\ prevFix' = lastFix
        /\ lastFix' = out.fix
        /\ UNCHANGED <<power, report, history, agent, store, request,
                       bot>>

\* src/plugins/network_checks.py check_nsg_rules: rdp_allowed
PluginRdpAllowed(rs) ==
    \E r \in rs : /\ r.direction = "Inbound"
                  /\ r.access = "Allow"
                  /\ r.port \in {"3389", "*", "ranges3389"}

\* outcome of the external calls of one request: which of them fail
NoFaults == [start |-> FALSE, nsgRead |-> FALSE, nsgWrite |-> FALSE,
             statusRead |-> FALSE, checkRead |-> FALSE]
FaultCases ==
    {NoFaults,
     [NoFaults EXCEPT !.start = TRUE],
     [NoFaults EXCEPT !.nsgRead = TRUE],
     [NoFaults EXCEPT !.nsgWrite = TRUE],
     [NoFaults EXCEPT !.statusRead = TRUE, !.checkRead = TRUE],
     [NoFaults EXCEPT !.start = TRUE, !.nsgWrite = TRUE]}

\* _execute_single_action with the plugin call behind it: the result the
\* agent records, the writes issued and the machine and rule set afterwards.
\* The agent's wrappers report success whenever the plugin returns, and the
\* plugins return a record, never raise.
ExecuteSingleAction(action_type, env, faults) ==
    CASE action_type = "start_vm" ->
            [env EXCEPT
                !.power = IF faults.start THEN @ ELSE "running",
                !.writes = Append(@, [kind |-> "start", priority |-> None,
                                      ok |-> ~faults.start]),
                !.actions = Append(@, [action |-> action_type,
                                       success |-> TRUE])]
      [] action_type = "restart_vm" ->
            [env EXCEPT
                !.power = IF faults.start THEN @ ELSE "running",
                !.writes = Append(@, [kind |-> "restart", priority |-> None,
                                      ok |-> ~faults.start]),
                !.actions = Append(@, [action |-> action_type,
                                       success |-> TRUE])]
      [] action_type = "update_nsg_rules" ->
            LET out == AddRdpNsgRule(env.rules, ~faults.nsgRead,
                                     ~faults.nsgWrite)
            IN  [env EXCEPT
                    !.rules = out.rules,
                    !.writes = @ \o out.writes,
                    !.actions = Append(@, [action |-> action_type,
                                           success |-> TRUE])]
      [] action_type \in {"configure_firewall", "start_rdp_service",
                          "restart_rdp_service"} ->
            [env EXCEPT
                !.actions = Append(@, [action |-> action_type,
                                       success |-> TRUE])]
      [] OTHER ->
            [env EXCEPT
                !.actions = Append(@, [action |-> action_type,
                                       success |-> FALSE])]

\* the loop stopped at the first failed action
ExecuteAction_Abort(action_type, env, faults) ==
    IF env.failure_count > 0 THEN env
    ELSE LET done == ExecuteSingleAction(action_type, env, faults)
         IN  IF done.actions[Len(done.actions)].success
             THEN [done EXCEPT !.success_count = @ + 1]
             ELSE [done EXCEPT !.failure_count = @ + 1]

\* one pass of the loop of _execute_resolution_actions: the action is run,
\* its result appended and one of the two counters incremented
ExecuteAction(action_type, env, faults) ==
    LET done == ExecuteSingleAction(action_type, env, faults)
    IN  IF done.actions[Len(done.actions)].success
        THEN [done EXCEPT !.success_count = @ + 1]
        ELSE [done EXCEPT !.failure_count = @ + 1]

\* _execute_resolution_actions: the plan, one action after the other
RECURSIVE ExecuteResolutionActions(_, _, _, _)
ExecuteResolutionActions(resolution_plan, i, env, faults) ==
    IF i > Len(resolution_plan) THEN env
    ELSE ExecuteResolutionActions(
             resolution_plan, i + 1,
             ExecuteAction(resolution_plan[i], env, faults), faults)

\* _validate_resolution: one check per successful action, then the verdict
ValidateResolution(env, faults) ==
    LET Check(a) ==
            CASE a.action = "start_vm" ->
                    ~faults.statusRead /\ env.power = "running"
              [] a.action = "update_nsg_rules" ->
                    ~faults.checkRead /\ PluginRdpAllowed(env.rules)
              [] OTHER -> TRUE
        Failed(a) == a.success /\ ~Check(a)
        failed_checks == SelectSeq(env.actions, Failed)
        failure_count == env.failure_count
    IN  IF failure_count > 0
        THEN [success |-> FALSE, overall_status |-> "failed"]
        ELSE IF failed_checks # <<>>
        THEN [success |-> FALSE, overall_status |-> "partial_success"]
        ELSE [success |-> TRUE, overall_status |-> "success"]

\* the phrases of the text _generate_resolution_response builds
RECURSIVE ResponseText(_, _)
ResponseText(actions, i) ==
    IF i > Len(actions) THEN {}
    ELSE DescriptionText(actions[i].action)
         \cup (IF actions[i].action = "start_rdp_service"
               THEN {"rdp service", "rdp"} ELSE {})
         \cup ResponseText(actions, i + 1)

NoPlanText == {"execute", "fix", "yes", "nsg rule", "rdp", "firewall"}
BlockedText == {"blocked"}

\* execute_resolution once the plan is known: gate, execution, validation
GateAndExecute(resolution_plan, user_permissions, pw, rs, faults) ==
    LET safety_check ==
            ValidateResolutionActions(resolution_plan, user_permissions)
        env0 == [power |-> pw, rules |-> rs, writes |-> <<>>,
                 actions |-> <<>>, success_count |-> 0, failure_count |-> 0]
        base == [plan |-> resolution_plan, permissions |-> user_permissions,
                 safe |-> safety_check.safe, reason |-> safety_check.reason,
                 blocked_actions |-> safety_check.blocked_actions,
                 authorized_actions |-> safety_check.authorized_actions]
    IN  IF resolution_plan = <<>>
        THEN [env |-> env0, message |-> NoPlanText,
              trace |-> base @@ [status |-> "no_plan", actions |-> <<>>,
                                 success |-> FALSE,
                                 overall_status |-> "none",
                                 success_count |-> 0, failure_count |-> 0]]
        ELSE IF ~safety_check.safe
        THEN [env |-> env0, message |-> BlockedText,
              trace |-> base @@ [status |-> "blocked", actions |-> <<>>,
                                 success |-> FALSE,
                                 overall_status |-> "none",
                                 success_count |-> 0, failure_count |-> 0]]
        ELSE LET env == ExecuteResolutionActions(resolution_plan, 1, env0,
                                                faults)
                 validation_results == ValidateResolution(env, faults)
             IN  [env |-> env,
                  message |-> ResponseText(env.actions, 1)
                              \cup (IF validation_results.success
                                    THEN {"rdp"} ELSE {}),
                  trace |-> base @@
                      [status |-> "resolution_complete",
                       actions |-> env.actions,
                       success |-> validation_results.success,
                       overall_status |->
                           validation_results.overall_status,
                       success_count |-> env.success_count,
                       failure_count |-> env.failure_count]]

\* execute_resolution
ExecuteResolution(user_input, user_permissions, messages, pw, rs, faults) ==
    GateAndExecute(ExtractResolutionPlan(user_input, messages),
                   user_permissions, pw, rs, faults)

\* fix_vm_power_state: begin_start(...).wait()
FixVmPowerState(startOk) ==
    [fix |-> [action |-> IF startOk THEN "vm_started" ELSE "vm_start_failed",
              ok |-> startOk],
     writes |-> <<[kind |-> "start", priority |-> None, ok |-> startOk]>>,
     power |-> IF startOk THEN "running" ELSE power]

\* troubleshoot_rdp: read the status, analyse the NSG, start the machine,
\* ensure the allow rule, report
TroubleshootRdp(vmReadOk, nsgReadOk, startOk, fixReadOk, writeOk) ==
    /\ UNCHANGED <<history, agent, store, request, bot>>
    /\ cliPre' = [power |-> power, rules |-> rules]
    /\ IF ~vmReadOk
       THEN /\ report' = [status |-> "error", power_state |-> "Unknown",
                          nsg_info |-> NsgError, fixes |-> <<>>]
            /\ writes' = <<>>
            /\ UNCHANGED <<power, rules, lastFix, prevFix, store, request,
                           bot>>
       ELSE LET nsg_info == IF nsgReadOk THEN CheckNsgRules(rules)
                            ELSE NsgError
                start == power = "deallocated"
                vm == FixVmPowerState(startOk)
                out == FixOutcome(rules, DesiredPriority(nsg_info),
                                  fixReadOk, writeOk)
                nsgFix == [action |-> out.fix.action, ok |-> out.fix.ok]
            IN  /\ power' = IF start THEN vm.power ELSE power
                /\ rules' = out.rules
                /\ writes' = (IF start THEN vm.writes ELSE <<>>) \o out.writes
                /\ report' = [status |-> "completed", power_state |-> power,
                              nsg_info |-> nsg_info,
                              fixes |-> (IF start THEN <<vm.fix>> ELSE <<>>)
                                        \o <<nsgFix>>]
                /\ prevFix' = NoFix
                /\ lastFix' = out.fix

DesiredInputs == {None, 150}

\* inputs that cannot matter to the call are fixed, not enumerated
CliFix ==
    \E d \in DesiredInputs, readOk, writeOk \in BOOLEAN :
        /\ ~readOk => writeOk
        /\ FixNsgRdpRule(d, readOk, writeOk)
CliRun ==
    \E vmReadOk, nsgReadOk, startOk, fixReadOk, writeOk \in BOOLEAN :
        /\ ~vmReadOk => nsgReadOk /\ startOk /\ fixReadOk /\ writeOk
        /\ power # "deallocated" => startOk
        /\ ~fixReadOk => writeOk
        /\ TroubleshootRdp(vmReadOk, nsgReadOk, startOk, fixReadOk, writeOk)

(* The command-line tool, run any number of times *)
Next == CliRun
Spec == Init /\ [][Next]_vars

(* fix_nsg_rdp_rule and add_rdp_nsg_rule applied any number of times to a
   running machine *)
InitFix == Init /\ power = "running"
PluginFix ==
    \E readOk, writeOk \in BOOLEAN :
        /\ ~readOk => writeOk
        /\ AddRule(readOk, writeOk)
NextFix == CliFix \/ PluginFix
SpecFix == InitFix /\ [][NextFix]_vars
(* The chat agents: confirmation requests on a conversation *)
AdviceTexts ==
    {{"recommended actions", "start the vm"},
     {"recommended actions", "nsg rule", "rdp"},
     {"recommended actions", "firewall", "rdp service", "rdp"},
     {"start the vm", "nsg rule", "rdp"}}
Padding == [i \in 1..(RecentWindow - 1) |-> {"rdp"}]
RECURSIVE Histories(_)
Histories(n) ==
    IF n = 0 THEN {<<>>}
    ELSE Histories(n - 1)
         \cup {Append(h, t) : h \in {x \in Histories(n - 1) : Len(x) = n - 1},
                              t \in AdviceTexts}
InitialHistories ==
    Histories(MaxInitHistory) \cup {h \o Padding : h \in Histories(1)}
AgentRuleSets ==
    {{}, {Named("DenyRDP", [access |-> "Deny", direction |-> "Inbound",
                            port |-> "3389", priority |-> 200])},
     {AllowRule(PluginPriority),
      Named("DenyRDP", [access |-> "Deny", direction |-> "Inbound",
                        port |-> "3389", priority |-> 200])}}
UserInputs ==
    {{"yes"}, {"rdp"}, {"fix", "recommended actions", "nsg rule", "rdp"}}
PermissionSets ==
    {{}, ActionPermissions.start_vm,
     ActionPermissions.start_vm \cup ActionPermissions.update_nsg_rules
         \cup ActionPermissions.configure_firewall}

InitResolve ==
    /\ power \in {"running", "stopped"}
    /\ rules \in AgentRuleSets
    /\ cliPre = [power |-> power, rules |-> rules]
    /\ report = NoReport
    /\ writes = <<>>
    /\ lastFix = NoFix
    /\ prevFix = NoFix
    /\ history \in InitialHistories
    /\ agent = NoAgent
    /\ store = <<>>
    /\ request = NoRequest
    /\ bot = NoBot

\* process_request's add_user_message followed by
\* _handle_resolution_confirmation
ResolutionConfirmation(user_input, user_permissions, faults) ==
    LET chat_history == Append(history, user_input)
        out == ExecuteResolution(user_input, user_permissions, chat_history,
                                 power, rules, faults)
    IN  /\ agent.n < MaxConfirms
        \* inputs the call never reads are held at one value
        /\ out.trace.status = "no_plan" => user_permissions = {}
        /\ out.trace.status # "resolution_complete" => faults = NoFaults
        /\ cliPre' = [power |-> power, rules |-> rules]
        /\ power' = out.env.power
        /\ rules' = out.env.rules
        /\ writes' = out.env.writes
        /\ history' = Append(chat_history, out.message)
        /\ agent' = out.trace @@ [n |-> agent.n + 1]
        /\ UNCHANGED <<report, lastFix, prevFix, store, request, bot>>

Confirm ==
    \E user_input \in UserInputs, user_permissions \in PermissionSets,
       faults \in FaultCases :
        ResolutionConfirmation(user_input, user_permissions, faults)
NextResolve == Confirm
SpecResolve == InitResolve /\ [][NextResolve]_vars

(* The safety gate and the executor on any plan and any permission set *)
ActionKinds ==
    {"start_vm", "stop_vm", "restart_vm", "update_nsg_rules",
     "configure_firewall", "start_rdp_service", "restart_rdp_service",
     "delete_vm"}
\* the kinds _execute_single_action has a branch for
ExecutorKinds ==
    {"start_vm", "restart_vm", "update_nsg_rules", "configure_firewall",
     "start_rdp_service", "restart_rdp_service"}
AllPermissions ==
    UNION {ActionPermissions[k] : k \in DOMAIN ActionPermissions}
    \cup {"*"}
RECURSIVE Plans(_)
Plans(n) ==
    IF n = 0 THEN {<<>>}
    ELSE Plans(n - 1)
         \cup {Append(pl, k) : pl \in {x \in Plans(n - 1) : Len(x) = n - 1},
                               k \in ActionKinds}

InitGate ==
    /\ power \in {"running", "stopped"}
    /\ rules \in AgentRuleSets
    /\ cliPre = [power |-> power, rules |-> rules]
    /\ report = NoReport
    /\ writes = <<>>
    /\ lastFix = NoFix
    /\ prevFix = NoFix
    /\ history = <<>>
    /\ store = <<>>
    /\ request = NoRequest
    /\ bot = NoBot
    /\ agent \in {[NoAgent EXCEPT !.plan = pl] : pl \in Plans(MaxPlan) \ {<<>>}}

\* execute_resolution from the safety validation on, for the plan at hand
GatePlan(user_permissions, faults) ==
    LET out == GateAndExecute(agent.plan, user_permissions, power, rules,
                              faults)
    IN  /\ agent.n < 1
        /\ cliPre' = [power |-> power, rules |-> rules]
        /\ power' = out.env.power
        /\ rules' = out.env.rules
        /\ writes' = out.env.writes
        /\ agent' = out.trace @@ [n |-> agent.n + 1]
        /\ UNCHANGED <<report, lastFix, prevFix, history, store, request,
                       bot>>

Gate ==
    \E user_permissions \in SUBSET AllPermissions, faults \in FaultCases :
        GatePlan(user_permissions, faults)
NextGate == Gate
SpecGate == InitGate /\ [][NextGate]_vars

----------------------------------------------------------------------------
(* The main agent: process_request with the input validation, the          *)
(* conversation store, the classifier and the three routes                  *)

InjectionPhrases ==
    {"ignore previous instructions", "forget everything", "you are now",
     "act as if", "pretend to be", "system:", "assistant:", "user:",
     "<|im_start|>", "<|im_end|>"}
PiiPhrases == {"user@example.com", "555-123-4567", "10.0.0.4"}
DangerousKeywords ==
    <<"delete everything", "remove all", "destroy", "wipe", "format c:",
      "rm -rf", "del /f /s", "shutdown -s -t 0">>

\* _detect_prompt_injection
DetectPromptInjection(text) == text \cap InjectionPhrases # {}
\* _detect_pii
DetectPii(text) == text \cap PiiPhrases # {}
\* _mask_pii: every found value is overwritten with asterisks
MaskPii(text) ==
    (text \ PiiPhrases) \cup (IF DetectPii(text) THEN {"****"} ELSE {})
\* _detect_suspicious_operations
DetectSuspiciousOperations(text) ==
    LET Found(k) == k \in text IN SelectSeq(DangerousKeywords, Found)

\* the input validation that lets an instruction-override text through
\* with a warning
ValidateInput_WarnOnly(user_input, flagged) ==
    [safe |-> ~flagged,
     reason |-> IF flagged THEN "Content Safety API flagged content" ELSE "",
     warnings |-> (IF DetectPromptInjection(user_input)
                   THEN <<"Prompt injection detected">> ELSE <<>>)
                  \o (IF DetectPii(user_input)
                      THEN <<"PII detected in input">> ELSE <<>>)
                  \o DetectSuspiciousOperations(user_input),
     sanitized_input |-> MaskPii(user_input)]

\* validate_input; flagged is the verdict of the Content Safety service
\* when one is configured
ValidateInput(user_input, flagged) ==
    IF DetectPromptInjection(user_input)
    THEN [safe |-> FALSE, reason |-> "Prompt injection detected",
          warnings |-> <<>>, sanitized_input |-> user_input]
    ELSE [safe |-> ~flagged,
          reason |-> IF flagged THEN "Content Safety API flagged content"
                     ELSE "",
          warnings |-> (IF DetectPii(user_input)
                        THEN <<"PII detected in input">> ELSE <<>>)
                       \o DetectSuspiciousOperations(user_input),
          sanitized_input |-> MaskPii(user_input)]

\* get_conversation: the stored items as a chat history, an empty history
\* when the query fails
GetConversation(items, readOk) ==
    IF readOk THEN [i \in 1..Len(items) |-> items[i].content] ELSE <<>>

\* save_conversation: one new item per message of the chat history, the
\* ones loaded from the store included; a failing save creates none
SaveConversation(items, roles, chat_history, writeOk) ==
    IF writeOk
    THEN items \o [i \in 1..Len(chat_history) |->
                      [role |-> roles[i], content |-> chat_history[i]]]
    ELSE items

\* _run_diagnostic_sequence: the collectors in the order they run
Collectors ==
    <<"vm_health", "nsg_rules", "firewall_status", "rdp_service",
      "network_connectivity", "auth_logs">>

\* _analyze_diagnostic_results: a recommendation for each failed collector
\* whose result lacks the field that clears it
RecommendationText(failed) ==
    (IF "nsg_rules" \in failed THEN {"nsg rule", "rdp"} ELSE {})
    \cup (IF "rdp_service" \in failed
          THEN {"start the remote desktop services"} ELSE {})
IssueText(failed) ==
    (IF "nsg_rules" \in failed THEN {"nsg rule", "rdp"} ELSE {})
    \cup (IF "firewall_status" \in failed THEN {"firewall"} ELSE {})
    \cup (IF "rdp_service" \in failed THEN {"rdp service", "rdp"} ELSE {})

\* analyze_rdp_issue: the collectors that ran and the response text;
\* failed is the set of collectors whose wrapper caught an exception,
\* internal_error an exception caught by analyze_rdp_issue itself
AnalyzeRdpIssue(has_vm_info, failed, internal_error) ==
    IF internal_error
    THEN [status |-> "diagnostic_error", collectors |-> <<>>,
          message |-> {"an error occurred during diagnosis"}]
    ELSE IF ~has_vm_info
    THEN [status |-> "information_needed", collectors |-> <<>>,
          message |-> {"rdp", "vm name"}]
    ELSE [status |-> "diagnostic_complete", collectors |-> Collectors,
          message |->
              IF failed = {} THEN {"no obvious issues"}
              ELSE {"issues found"} \cup IssueText(failed)
                   \cup (IF failed \cap {"nsg_rules", "rdp_service"} # {}
                         THEN {"recommended actions"}
                              \cup RecommendationText(failed)
                         ELSE {})]

ValidTypes ==
    {"rdp_troubleshooting", "resolution_confirmation", "general_support",
     "unknown_request"}
ClarificationText == {"rdp", "what specific issue"}

\* str(classification_result).strip().lower() on the outputs of the model
Normalize(output) ==
    CASE output = " Resolution_Confirmation " -> "resolution_confirmation"
      [] OTHER -> output

\* _classify_issue: the validation of the classifier's output
ClassifyIssue_Passthrough(classification) == classification
ClassifyIssue(classification) ==
    IF classification \in ValidTypes THEN classification
    ELSE "unknown_request"

\* the keys of the record each branch of process_request returns
ResultFields(status) ==
    CASE status = "blocked" -> {"status", "reason", "message"}
      [] status = "error" -> {"status", "message", "error_details"}
      [] status = "diagnostic_complete" ->
             {"status", "agent", "message", "diagnostics",
              "recommended_actions", "requires_resolution",
              "escalation_needed"}
      [] status = "resolution_complete" ->
             {"status", "agent", "message", "actions_taken",
              "verification_results", "success"}
      [] status = "general_support" -> {"status", "message", "suggestions"}
      [] OTHER -> {"status", "message"}

\* an exception left uncaught by process_request
HandleFailure_Reraise(base) ==
    [base EXCEPT !.status = "unhandled", !.store_reads = 1]
\* the except branch of process_request
HandleFailure(base) ==
    [base EXCEPT !.status = "error", !.reason = "error_details",
                 !.fields = ResultFields("error"), !.store_reads = 1]

\* process_request up to the point where it returns; in is the request
\* with everything the outside world answers during it: the verdict of the
\* content check, the classifier's output ("raise" when the call fails),
\* the text of the support prompt (textOk false when that call fails), the
\* outcome of the diagnostic agent (diag "error" when analyze_rdp_issue
\* catches an exception, "raise" when the call itself raises), the faults
\* of the writes and whether the store can be read and written
ProcessRequestOutcome(in, items, pw, rs) ==
    LET safety_result == ValidateInput(in.user_input, in.flagged)
        loaded == GetConversation(items, in.readOk)
        loadedRoles == IF in.readOk
                       THEN [i \in 1..Len(items) |-> items[i].role]
                       ELSE <<>>
        chat_history == Append(loaded, in.user_input)
        classification == Normalize(in.classification)
        issue_type == ClassifyIssue(classification)
        diagnostic_result ==
            AnalyzeRdpIssue(in.has_vm_info, in.failed, in.diag = "error")
        resolution_result ==
            ExecuteResolution(in.user_input, in.permissions, chat_history,
                              pw, rs, in.faults)
        message ==
            CASE issue_type = "rdp_troubleshooting" ->
                     diagnostic_result.message
              [] issue_type = "resolution_confirmation" ->
                     resolution_result.message
              [] issue_type = "general_support" -> in.text
              [] OTHER -> ClarificationText
        handler ==
            CASE issue_type = "rdp_troubleshooting" -> "diagnostic"
              [] issue_type = "resolution_confirmation" -> "resolution"
              [] issue_type = "general_support" -> "general_support"
              [] OTHER -> "unknown_request"
        raised ==
            \/ in.classification = "raise"
            \/ handler = "diagnostic" /\ in.diag = "raise"
            \/ handler = "general_support" /\ ~in.textOk
        status ==
            CASE issue_type = "rdp_troubleshooting" -> "diagnostic_complete"
              [] issue_type = "resolution_confirmation" ->
                     "resolution_complete"
              [] issue_type = "general_support" -> "general_support"
              [] OTHER -> "clarification_needed"
        final_history == Append(chat_history, message)
        final_roles == loadedRoles \o <<"user", "assistant">>
        base == [NoRequest EXCEPT !.user_input = in.user_input,
                                  !.classification = classification,
                                  !.safe = safety_result.safe,
                                  !.warnings = safety_result.warnings,
                                  !.reason = safety_result.reason,
                                  !.store_before = items]
        quiet == [power |-> pw, rules |-> rs, writes |-> <<>>]
    IN  IF ~safety_result.safe
        THEN [env |-> quiet, items |-> items, chat |-> <<>>, called |-> FALSE,
              trace |-> NoAgent,
              result |-> [base EXCEPT !.status = "blocked",
                                      !.classification = "",
                                      !.fields = ResultFields("blocked")]]
        ELSE IF raised
        THEN [env |-> quiet, items |-> items, chat |-> chat_history,
              called |-> FALSE, trace |-> NoAgent,
              result |->
                  HandleFailure(
                      [base EXCEPT
                          !.classified = in.classification # "raise",
                          !.issue_type = IF in.classification = "raise"
                                         THEN "" ELSE issue_type,
                          !.handler = IF in.classification = "raise"
                                      THEN "" ELSE handler,
                          !.diag = IF handler = "diagnostic"
                                      /\ in.classification # "raise"
                                   THEN in.diag ELSE ""])]
        ELSE [env |-> IF issue_type = "resolution_confirmation"
                      THEN resolution_result.env ELSE quiet,
              items |-> SaveConversation(items, final_roles, final_history,
                                         in.writeOk),
              chat |-> final_history,
              called |-> issue_type = "resolution_confirmation",
              trace |-> resolution_result.trace,
              result |->
                  [base EXCEPT
                      !.status = status,
                      !.fields = ResultFields(status),
                      !.issue_type = issue_type,
                      !.handler = handler,
                      !.diag = IF handler = "diagnostic" THEN in.diag
                               ELSE "",
                      !.failed = IF handler = "diagnostic" THEN in.failed
                                 ELSE {},
                      !.classified = TRUE,
                      !.store_reads = 1,
                      !.store_writes = IF in.writeOk
                                       THEN Len(final_history) ELSE 0,
                      !.collectors =
                          IF issue_type = "rdp_troubleshooting"
                          THEN diagnostic_result.collectors ELSE <<>>,
                      !.actions =
                          IF issue_type = "resolution_confirmation"
                          THEN resolution_result.trace.actions ELSE <<>>]]

RequestTexts ==
    {{"rdp"}, {"yes"}, {"ignore previous instructions", "yes"},
     {"user@example.com", "rdp"}}
Classifications ==
    ValidTypes \cup {"something else", " Resolution_Confirmation ", "raise"}
Case(user_input, classification) ==
    [user_input |-> user_input, classification |-> classification,
     flagged |-> FALSE, has_vm_info |-> TRUE, failed |-> {}, diag |-> "ok",
     text |-> {"azure service health"}, textOk |-> TRUE,
     permissions |-> ActionPermissions.start_vm
                     \cup ActionPermissions.update_nsg_rules,
     faults |-> NoFaults, readOk |-> TRUE, writeOk |-> TRUE]
RequestCases ==
    {Case(t, c) : t \in RequestTexts, c \in Classifications}
    \cup {[Case({"rdp"}, "rdp_troubleshooting") EXCEPT !.failed = f] :
             f \in {{"nsg_rules"}, {"vm_health", "firewall_status"}}}
    \cup {[Case({"rdp"}, "rdp_troubleshooting") EXCEPT !.has_vm_info = FALSE]}
    \cup {[Case({"rdp"}, "rdp_troubleshooting") EXCEPT !.diag = d] :
             d \in {"error", "raise"}}
    \cup {[Case({"rdp"}, "general_support") EXCEPT !.textOk = FALSE]}
    \cup {[Case({"rdp"}, "general_support") EXCEPT
              !.text = {"recommended actions", "start the vm"}]}
    \cup {[Case({"yes"}, "resolution_confirmation") EXCEPT
              !.permissions = p, !.faults = f] :
             p \in {{}, ActionPermissions.start_vm}, f \in FaultCases}
    \cup {[Case({"rdp"}, "unknown_request") EXCEPT !.flagged = TRUE],
          [Case({"ignore previous instructions", "yes"},
                "resolution_confirmation") EXCEPT !.flagged = TRUE],
          [Case({"yes"}, "resolution_confirmation") EXCEPT !.readOk = FALSE],
          [Case({"yes"}, "resolution_confirmation") EXCEPT !.writeOk = FALSE]}

InitAgent ==
    /\ power \in {"running", "stopped"}
    /\ rules \in {{}, {Named("DenyRDP",
                             [access |-> "Deny", direction |-> "Inbound",
                              port |-> "3389", priority |-> 200])}}
    /\ cliPre = [power |-> power, rules |-> rules]
    /\ report = NoReport
    /\ writes = <<>>
    /\ lastFix = NoFix
    /\ prevFix = NoFix
    /\ history = <<>>
    /\ agent = NoAgent
    /\ store = <<>>
    /\ request = NoRequest
    /\ bot = NoBot

\* process_request
ProcessRequest(in) ==
    LET out == ProcessRequestOutcome(in, store, power, rules)
    IN  /\ request.n < MaxRequests
        /\ cliPre' = [power |-> power, rules |-> rules]
        /\ power' = out.env.power
        /\ rules' = out.env.rules
        /\ writes' = out.env.writes
        /\ store' = out.items
        /\ history' = out.chat
        /\ agent' = IF out.called THEN out.trace @@ [n |-> agent.n + 1]
                    ELSE agent
        /\ request' = [out.result EXCEPT !.n = request.n + 1]
        /\ UNCHANGED <<report, lastFix, prevFix, bot>>

Request == \E in \in RequestCases : ProcessRequest(in)
NextAgent == Request
SpecAgent == InitAgent /\ [][NextAgent]_vars

----------------------------------------------------------------------------
(* enable_rdp.py: the command-line run with the auto-fix switch             *)

\* diagnose_vm_status
DiagnoseVmStatus(pw, readOk) ==
    IF readOk
    THEN [error |-> FALSE, power_state |-> pw, is_running |-> pw = "running"]
    ELSE [error |-> TRUE, power_state |-> "Unknown", is_running |-> FALSE]

\* diagnose_rdp_port
DiagnoseRdpPort(rs, readOk) ==
    IF readOk
    THEN [error |-> FALSE,
          rdp_allowed |-> \E r \in rs : /\ HasRdp(r)
                                        /\ r.access = "Allow"
                                        /\ r.direction = "Inbound"]
    ELSE [error |-> TRUE, rdp_allowed |-> FALSE]

\* fix_rdp_issues: starts the machine, reports the rule set for manual
\* review; f tells which of its calls fail
FixRdpIssues(pw, rs, auto_fix, f) ==
    LET vm_status == DiagnoseVmStatus(pw, f.fixVmRead)
        starts == ~vm_status.is_running /\ auto_fix
        nsg_status == DiagnoseRdpPort(rs, f.fixNsgRead)
        started == IF starts THEN <<"VM started">> ELSE <<>>
        review == IF ~nsg_status.rdp_allowed /\ auto_fix
                  THEN <<"NSG rules need manual review">> ELSE <<>>
        issued == IF starts
                  THEN <<[kind |-> "start", priority |-> None,
                          ok |-> f.start]>>
                  ELSE <<>>
    IN  IF starts /\ ~f.start
        THEN [power |-> pw, writes |-> issued,
              result |-> [status |-> "failed", fixes_applied |-> <<>>]]
        ELSE [power |-> IF starts THEN "running" ELSE pw, writes |-> issued,
              result |-> [status |-> IF started \o review # <<>>
                                     THEN "completed"
                                     ELSE "no_fixes_needed",
                          fixes_applied |-> started \o review]]

NoFixesResult == [status |-> "none", fixes_applied |-> <<>>]

\* troubleshoot_rdp of enable_rdp.py: the three collectors gathered, then
\* the fixes when auto_fix is set
EnableRdpTroubleshoot(pw, rs, auto_fix, f) ==
    LET fixed == FixRdpIssues(pw, rs, auto_fix, f)
    IN  [power |-> IF auto_fix THEN fixed.power ELSE pw,
         writes |-> IF auto_fix THEN fixed.writes ELSE <<>>,
         report |-> [status |-> "completed",
                     auto_fix |-> auto_fix,
                     vm_status |-> DiagnoseVmStatus(pw, f.vmRead),
                     nsg_status |-> DiagnoseRdpPort(rs, f.nsgRead),
                     connectivity_error |-> ~f.connRead,
                     fixes_applied |-> IF auto_fix THEN fixed.result
                                       ELSE NoFixesResult]]

AllOk == [vmRead |-> TRUE, nsgRead |-> TRUE, connRead |-> TRUE,
          fixVmRead |-> TRUE, fixNsgRead |-> TRUE, start |-> TRUE]
EnableRdpCases ==
    {AllOk,
     [AllOk EXCEPT !.vmRead = FALSE],
     [AllOk EXCEPT !.nsgRead = FALSE],
     [AllOk EXCEPT !.connRead = FALSE],
     [AllOk EXCEPT !.vmRead = FALSE, !.fixVmRead = FALSE],
     [AllOk EXCEPT !.fixNsgRead = FALSE],
     [AllOk EXCEPT !.start = FALSE]}

EnableRdpRun(auto_fix, f) ==
    LET out == EnableRdpTroubleshoot(power, rules, auto_fix, f)
    IN  \* the calls of fix_rdp_issues are only made with auto_fix
        /\ ~auto_fix => (f.fixVmRead /\ f.fixNsgRead /\ f.start)
        /\ cliPre' = [power |-> power, rules |-> rules]
        /\ power' = out.power
        /\ writes' = out.writes
        /\ report' = out.report
        /\ UNCHANGED <<rules, lastFix, prevFix, history, agent, store,
                       request, bot>>

EnableRdp ==
    \E auto_fix \in BOOLEAN, f \in EnableRdpCases : EnableRdpRun(auto_fix, f)
\* the conversation is new, or holds an earlier exchange that ended with
\* recommended actions
StoredConversations ==
    {<<>>,
     <<[role |-> "user", content |-> {"rdp"}],
       [role |-> "assistant",
        content |-> {"recommended actions", "start the vm", "nsg rule",
                     "rdp"}]>>}
InitEnable ==
    /\ power \in {"running", "stopped"}
    /\ rules \in {{}, {Named("DenyRDP",
                             [access |-> "Deny", direction |-> "Inbound",
                              port |-> "3389", priority |-> 200])}}
    /\ cliPre = [power |-> power, rules |-> rules]
    /\ report = NoReport
    /\ writes = <<>>
    /\ lastFix = NoFix
    /\ prevFix = NoFix
    /\ history = <<>>
    /\ agent = NoAgent
    /\ store \in StoredConversations
    /\ request = NoRequest
    /\ bot = NoBot

Chat == request.n < MaxChats /\ Request
NextEnable == EnableRdp \/ Chat
SpecEnable == InitEnable /\ [][NextEnable]_vars

----------------------------------------------------------------------------
(* What the claims speak about, stated over the recorded run *)

\* the rule set the last operation started from, and its blocking rules
PreRules == cliPre.rules
MatchesPort(r) == r.direction = "Inbound" /\ r.port \in {"3389", "ranges3389"}
DenyMatches(rs) == {r \in rs : MatchesPort(r) /\ r.access = "Deny"}
AllowMatches(rs) == {r \in rs : MatchesPort(r) /\ r.access = "Allow"}
HasDeny == DenyMatches(PreRules) # {}
\* d: the minimum precedence among the matching inbound deny rules
MinDeny == MinOf({r.priority : r \in DenyMatches(PreRules)})

\* the last operation issued the allow-rule write, with precedence p
WroteAllowRule == \E i \in 1..Len(writes) : writes[i].kind = "upsert"
WrittenPriority ==
    writes[CHOOSE i \in 1..Len(writes) : writes[i].kind = "upsert"].priority
RunCompleted == report.status = "completed"
AnalysisOk == RunCompleted /\ ~report.nsg_info.error

\* C1 (as stated): whenever a matching inbound deny rule with minimum
\* precedence d exists, the precedence p computed for the allow rule
\* satisfies p < d and p >= 100, also for d = 100 and d = 101.
C1_Original ==
    (WroteAllowRule /\ HasDeny) =>
        (WrittenPriority < MinDeny /\ WrittenPriority >= MinPriority)

\* C1 (amended): p >= 100 always; p < d whenever d > 100; for d = 100 the
\* allow rule is written at 100, level with the deny rule, not above it.
C1_Theorem ==
    (WroteAllowRule /\ HasDeny) =>
        /\ WrittenPriority >= MinPriority
        /\ MinDeny > MinPriority => WrittenPriority < MinDeny
        /\ MinDeny = MinPriority => WrittenPriority = MinPriority
C1_Witness ==
    /\ AnalysisOk /\ WroteAllowRule /\ HasDeny
    /\ MinDeny = 101 /\ WrittenPriority = 100
    /\ AllowRule(100) \in rules

\* C2: the analysis reports conflict = true exactly when an inbound allow
\* rule and an inbound deny rule both match port 3389 and the minimum deny
\* precedence is strictly lower than the minimum allow precedence.
C2_Theorem ==
    AnalysisOk =>
        (report.nsg_info.rdp_conflict <=>
            /\ AllowMatches(PreRules) # {}
            /\ \E d \in DenyMatches(PreRules) :
                   \A a \in AllowMatches(PreRules) : d.priority < a.priority)
C2_Witness ==
    /\ AnalysisOk /\ report.nsg_info.rdp_conflict
    /\ AllowMatches(PreRules) # {} /\ DenyMatches(PreRules) # {}

\* C3 (as stated): a run writes max(100, min(500, d - 1)) when a matching
\* inbound deny rule exists with minimum precedence d, and 500 when none
\* exists; a lone deny at 1000 yields 500.
C3_Original ==
    (RunCompleted /\ WroteAllowRule) =>
        WrittenPriority =
            IF HasDeny
            THEN Max(MinPriority, Min(DefaultPriority, MinDeny - 1))
            ELSE DefaultPriority

\* C3 (amended): a run whose ACL analysis succeeded writes max(100, d - 1)
\* when a matching inbound deny rule exists (999 for a lone deny at 1000,
\* 199 for deny 200 with allow 1000) and 500 when none exists; only a run
\* whose analysis failed writes max(100, min(500, d - 1)).
C3_Theorem ==
    (RunCompleted /\ WroteAllowRule) =>
        WrittenPriority =
            IF ~HasDeny THEN DefaultPriority
            ELSE IF AnalysisOk THEN Max(MinPriority, MinDeny - 1)
            ELSE Max(MinPriority, Min(DefaultPriority, MinDeny - 1))
C3_Witness ==
    /\ AnalysisOk /\ WroteAllowRule /\ HasDeny
    /\ MinDeny = 1000 /\ AllowMatches(PreRules) = {}
    /\ WrittenPriority = 999
\* two successive applications of EnsureAllowRule by the same front-end with
\* the same target, the write capability working in both
SecondApplication ==
    /\ prevFix.ok /\ lastFix.impl = prevFix.impl
    /\ lastFix.action # "nsg_rule_failed"
    /\ prevFix.desired = lastFix.desired
ManagedAllowRules(rs) ==
    {r \in rs : r.name = ManagedName /\ r.access = "Allow"}
Idempotent ==
    /\ rules = PreRules
    /\ CheckNsgRules(rules) = CheckNsgRules(PreRules)
    /\ Cardinality(ManagedAllowRules(rules)) = 1
    /\ lastFix.priority = prevFix.priority
    /\ lastFix.ok

\* C7 (as stated): applying EnsureAllowRule twice with the same target
\* precedence leaves the rule set and the ACL analysis of the first
\* application: one allow rule of the managed name, the same precedence,
\* and success.
C7_Original == SecondApplication => Idempotent

\* C7 (amended): the same, provided no deny rule carried the managed name
\* AllowRDP before the first application.
C7_Theorem == (SecondApplication /\ ~prevFix.clash) => Idempotent
C7_Witness ==
    /\ SecondApplication /\ ~prevFix.clash /\ lastFix.impl = "cli"
    /\ rules = PreRules /\ lastFix.action = "nsg_rule_updated"
    /\ DenyMatches(rules) # {} /\ lastFix.priority = prevFix.priority

\* the kinds of the writes the last operation issued, in order
WriteKinds == [i \in 1..Len(writes) |-> writes[i].kind]
PortOpen(rs) ==
    /\ AllowMatches(rs) # {}
    /\ \A d \in DenyMatches(rs) :
          \E a \in AllowMatches(rs) : a.priority <= d.priority

\* C8: when the collected power state is not running and the ACL allows
\* port 3389 without conflict, the run executes exactly [StartMachine].
C8_Claim ==
    (AnalysisOk /\ cliPre.power # "running" /\ PortOpen(PreRules)) =>
        WriteKinds = <<"start">>

\* C9: the allow-rule write is issued only when the ACL analysis reports the
\* port not allowed or a conflict; a run on a running machine with the port
\* allowed and no conflict issues no write.
C9_Claim ==
    /\ (AnalysisOk /\ WroteAllowRule) => ~PortOpen(PreRules)
    /\ (AnalysisOk /\ cliPre.power = "running" /\ PortOpen(PreRules)) =>
          writes = <<>>
\* the authorization rule of the claim, for an action kind and a caller
InSeq(x, seq) == \E i \in 1..Len(seq) : seq[i] = x
Mapped(k) == k \in DOMAIN ActionPermissions
MayRun(k, perms) == Mapped(k) /\ ActionPermissions[k] \cap perms # {}
GateRan == agent.status \in {"blocked", "resolution_complete"}
SomeActionDenied ==
    \E i \in 1..Len(agent.plan) : ~MayRun(agent.plan[i], agent.permissions)

\* C4: if any action of a plan fails the authorization check the whole plan
\* is rejected: no action is executed, no write reaches the machine or the
\* ACL, and the result is a rejection that carries a reason.
C4_Theorem ==
    (GateRan /\ SomeActionDenied) =>
        /\ agent.status = "blocked"
        /\ agent.actions = <<>>
        /\ writes = <<>>
        /\ power = cliPre.power /\ rules = cliPre.rules
        /\ agent.reason # ""
C4_Witness ==
    /\ agent.status = "blocked" /\ Len(agent.plan) >= 2
    /\ MayRun(agent.plan[1], agent.permissions)
    /\ ~MayRun(agent.plan[2], agent.permissions)
    /\ writes = <<>>

\* C5: an action is authorized exactly when its kind is in the permission
\* map and the caller holds one of the permissions mapped to it; a kind
\* absent from the map is rejected for every caller, also when the executor
\* has a branch for it, and nothing of its plan runs.
C5_Theorem ==
    GateRan =>
        \A i \in 1..Len(agent.plan) :
            LET k == agent.plan[i]
            IN  /\ InSeq(k, agent.authorized_actions)
                       <=> MayRun(k, agent.permissions)
                /\ ~Mapped(k) =>
                       /\ InSeq(k, agent.blocked_actions)
                       /\ agent.status = "blocked"
                       /\ ~InSeq(k, [j \in 1..Len(agent.actions) |->
                                        agent.actions[j].action])
                       /\ writes = <<>>
C5_Witness ==
    /\ agent.status = "blocked"
    /\ agent.permissions = AllPermissions
    /\ \E i \in 1..Len(agent.plan) :
          agent.plan[i] \in ExecutorKinds /\ ~Mapped(agent.plan[i])

\* C6: whenever a plan contains both StartMachine and EnsureAllowRule,
\* StartMachine comes strictly before EnsureAllowRule in the plan and its
\* write is issued first.
C6_Claim ==
    /\ \A i, j \in 1..Len(agent.plan) :
          (agent.plan[i] = "start_vm" /\ agent.plan[j] = "update_nsg_rules")
              => i < j
    /\ \A i, j \in 1..Len(writes) :
          (writes[i].kind = "start" /\ writes[j].kind = "upsert") => i < j
\* C10: a request text that matches an instruction-override pattern is
\* reported unsafe and hard-blocked: process_request returns a blocked
\* result without classifying the request, running a collector, executing
\* an action, or reading or writing the conversation store.
C10_Theorem ==
    (request.n > 0 /\ request.user_input \cap InjectionPhrases # {}) =>
        /\ ~request.safe
        /\ request.status = "blocked"
        /\ request.reason # ""
        /\ ~request.classified
        /\ request.collectors = <<>>
        /\ request.actions = <<>>
        /\ writes = <<>>
        /\ power = cliPre.power /\ rules = cliPre.rules
        /\ request.store_reads = 0
        /\ request.store_writes = 0
        /\ store = request.store_before
C10_Witness ==
    /\ request.status = "blocked"
    /\ request.reason = "Prompt injection detected"
    /\ request.user_input \cap ConfirmWords # {}
    /\ \E i \in 1..Len(store) :
          {"recommended actions", "start the vm"} \subseteq store[i].content
    /\ power = "stopped"

HasPii(text) == text \cap PiiPhrases # {}

\* C11: a request text with personally identifying data and no
\* instruction-override pattern is not blocked, a warning is recorded, and
\* the request text handed to the conversation store has every detected
\* value redacted: the unredacted text is never stored.
C11_Claim ==
    (/\ request.n > 0
     /\ HasPii(request.user_input)
     /\ request.user_input \cap InjectionPhrases = {}
     /\ request.safe) =>
        /\ request.status # "blocked"
        /\ request.warnings # <<>>
        /\ \A i \in 1..Len(store) : ~HasPii(store[i].content)
        /\ \A i \in 1..Len(history) : ~HasPii(history[i])

\* the ACL analysis of a rule set as the specification defines it: the port
\* is allowed by a matching inbound allow rule, and a matching deny rule of
\* lower number outranks the best allow rule
PortAllowedIn(rs) == AllowMatches(rs) # {}
ConflictIn(rs) ==
    /\ AllowMatches(rs) # {} /\ DenyMatches(rs) # {}
    /\ MinOf({r.priority : r \in DenyMatches(rs)})
           < MinOf({r.priority : r \in AllowMatches(rs)})
Ran(kind) ==
    \E i \in 1..Len(agent.actions) :
        agent.actions[i].action = kind /\ agent.actions[i].success
Validated == agent.status = "resolution_complete"

\* C12: validation reports overall success only if every expected
\* post-condition holds after execution: the machine reports running if
\* StartMachine ran, and the rule set has the port allowed and no conflict
\* if EnsureAllowRule ran; a rule set in which a deny rule still outranks
\* the allow rule is never validated as success.
C12_Claim ==
    (Validated /\ agent.overall_status = "success") =>
        /\ Ran("start_vm") => power = "running"
        /\ Ran("update_nsg_rules") =>
               PortAllowedIn(rules) /\ ~ConflictIn(rules)

SomeActionSucceeded ==
    \E i \in 1..Len(agent.actions) : agent.actions[i].success

ActionOfWrite(w) ==
    CASE w.kind = "start" -> "start_vm"
      [] w.kind = "restart" -> "restart_vm"
      [] OTHER -> "update_nsg_rules"

\* C14: every failure of an action's write is recorded in that action's
\* result: an action is reported successful only if its write succeeded,
\* and a write that reports an error gives a result with success = false
\* that is counted as a failure.
C14_Claim ==
    Validated =>
        \A i \in 1..Len(writes) :
            ~writes[i].ok =>
                /\ \A j \in 1..Len(agent.actions) :
                       agent.actions[j].action = ActionOfWrite(writes[i])
                           => ~agent.actions[j].success
                /\ agent.overall_status # "success"

ReturnedStatuses ==
    {"blocked", "error", "diagnostic_complete", "resolution_complete",
     "general_support", "clarification_needed"}
Answered == request.n > 0

\* C15: no failure inside the engine reaches the caller as an unhandled
\* fault: whatever fails (a collector, the classifier, the conversation
\* store, the safety gate, an action write), process_request and the
\* execute_resolution call inside it return a result record with a status
\* and a reason.
C15_Theorem ==
    Answered =>
        /\ request.status \in ReturnedStatuses
        /\ "status" \in request.fields
        /\ request.fields \cap {"reason", "message", "error_details"} # {}
        /\ request.handler = "resolution" =>
               agent.status \in {"no_plan", "blocked", "resolution_complete"}
C15_Witness ==
    /\ Answered
    /\ request.classification = "raise"
    /\ request.status = "error"
    /\ request.reason # ""
    /\ store # <<>>

\* C16: when the diagnostic step of an RDP troubleshooting request fails
\* (the diagnostic agent raises), process_request returns a result whose
\* status is 'diagnostic_error' and which contains an 'error' field.
C16_Claim ==
    (Answered /\ request.handler = "diagnostic"
        /\ request.diag \in {"error", "raise"}) =>
        /\ request.status = "diagnostic_error"
        /\ "error" \in request.fields

ChatStep == request'.n # request.n
Touches == writes' # <<>> \/ power' # power \/ rules' # rules
ConfirmedPlan ==
    /\ request'.handler = "resolution"
    /\ request'.user_input \cap ConfirmWords # {}
    /\ agent'.plan # <<>>
    /\ \E i \in 1..Len(request'.store_before) :
          "recommended actions" \in request'.store_before[i].content

C19_Claim == report.status # "none" => report.status = "completed"

----------------------------------------------------------------------------
(* a conversation continued from the store: MaxRequests further requests   *)

SpecConversation == InitEnable /\ [][NextAgent]_vars

\* the last request ran execute_resolution and the run ended: the plan was
\* executed and re-checked, or the gate rejected it
RunEnded == /\ request.handler = "resolution"
            /\ agent.status \in {"resolution_complete", "blocked"}

\* C20: Validated and Failed are terminal: after a request whose run was
\* executed and re-checked, or rejected by the gate, the next request of the
\* conversation issues no write, so a further confirmation does not execute
\* the plan again.
C20_Claim == [][RunEnded => writes' = <<>>]_vars

\* C21: after execution the result list has one entry per planned action, in
\* plan order, and success_count + failure_count is the plan length: a failed
\* action does not stop the ones after it.
C21_Theorem ==
    agent.status = "resolution_complete" =>
        /\ Len(agent.actions) = Len(agent.plan)
        /\ \A i \in 1..Len(agent.plan) :
              agent.actions[i].action = agent.plan[i]
        /\ agent.success_count + agent.failure_count = Len(agent.plan)
\* a plan whose first action failed and whose second one ran and wrote
C21_Witness ==
    /\ agent.status = "resolution_complete"
    /\ Len(agent.plan) = 2
    /\ ~agent.actions[1].success
    /\ agent.actions[2].success
    /\ agent.failure_count = 1
    /\ writes # <<>>

\* the guest-side fixes, which need a running machine
GuestActions == {"configure_firewall", "start_rdp_service",
                 "restart_rdp_service"}
StartFailed == \E k \in 1..Len(writes) :
                   writes[k].kind = "start" /\ ~writes[k].ok

\* C22: when the start of the machine failed, no guest-side action planned
\* after it is carried out: none of them has an entry reporting that it ran.
C22_Claim ==
    (agent.status = "resolution_complete" /\ StartFailed) =>
        \A i, j \in 1..Len(agent.actions) :
            (i < j /\ agent.actions[i].action = "start_vm"
                   /\ agent.actions[j].action \in GuestActions)
                => ~agent.actions[j].success

\* C23: no action kind appears twice in a plan; in particular a plan holds at
\* most one update_nsg_rules, however many messages recommend it.
C23_Claim ==
    \A i, j \in 1..Len(agent.plan) : agent.plan[i] = agent.plan[j] => i = j

\* C24: a run of the command-line tool whose network-rule read failed issues
\* no rule write.
C24_Claim ==
    (report.status = "completed" /\ report.nsg_info.error) =>
        \A k \in 1..Len(writes) : writes[k].kind # "upsert"

----------------------------------------------------------------------------
(* simple_agent.py: AzureSupportBot, runs of start_troubleshooting that    *)
(* overlap at their await points                                           *)

\* datetime.now().strftime('%Y%m%d_%H%M%S'): the clock cut to the second
SessionId(clock) == clock \div TicksPerSecond

\* asyncio.gather returning at the first exception (return_exceptions unset)
GatherDone_FirstException(tasks) ==
    \/ \E i \in DOMAIN tasks : tasks[i] = "raised"
    \/ \A i \in DOMAIN tasks : tasks[i] # "pending"
\* asyncio.gather(*checks, return_exceptions=True): every check has returned
\* or raised
GatherDone(tasks) == \A i \in DOMAIN tasks : tasks[i] # "pending"

\* the loop over the gathered results: one DiagnosticResult per check, in the
\* order of the checks; an exception becomes a "System Error" result
Diagnostics(tasks) ==
    [i \in DOMAIN tasks |->
        [check_name |-> IF tasks[i] = "raised" THEN "System Error"
                        ELSE Checks[i],
         status |-> IF tasks[i] = "pass" THEN "pass" ELSE "fail"]]

\* start_troubleshooting up to its first await: the session is created and
\* entered in active_sessions, the three checks are handed to gather
StartTroubleshooting(r) ==
    LET session_id == SessionId(bot.clock)
    IN  /\ bot.runs[r].pc = "idle"
        /\ r > 1 => bot.runs[r - 1].pc # "idle"
        /\ bot' = [bot EXCEPT
               !.active_sessions[session_id] = r,
               !.runs[r] = [NoRun EXCEPT !.pc = "gather",
                                         !.session_id = session_id,
                                         !.status = "active"]]

\* one of the checks of the inspector returns its result or raises
CheckCompletes(r, i, outcome) ==
    /\ bot.runs[r].pc = "gather"
    /\ bot.runs[r].tasks[i] = "pending"
    /\ bot' = [bot EXCEPT !.runs[r].tasks[i] = outcome]

\* _run_diagnostics resumes after gather and fills session.diagnostics
RunDiagnostics(r) ==
    /\ bot.runs[r].pc = "gather"
    /\ GatherDone(bot.runs[r].tasks)
    /\ bot' = [bot EXCEPT
           !.runs[r].diagnostics = Diagnostics(bot.runs[r].tasks),
           !.runs[r].pc = "analyze"]

\* the rest of start_troubleshooting: the analysis, status completed, the
\* session id returned
AnalyzeDiagnostics(r) ==
    /\ bot.runs[r].pc = "analyze"
    /\ bot' = [bot EXCEPT
           !.runs[r].resolution = bot.runs[r].diagnostics # <<>>,
           !.runs[r].status = "completed",
           !.runs[r].returned = bot.runs[r].session_id,
           !.runs[r].pc = "done"]

Tick ==
    /\ bot.clock < MaxClock
    /\ bot' = [bot EXCEPT !.clock = @ + 1]

\* get_session_results: the run whose session active_sessions holds under
\* the id, 0 for None
GetSessionResults(session_id) == bot.active_sessions[session_id]

botOther == <<power, rules, cliPre, report, writes, lastFix, prevFix,
              history, agent, store, request>>
Start == \E r \in 1..MaxRuns : StartTroubleshooting(r) /\ UNCHANGED botOther
Check ==
    \E r \in 1..MaxRuns, i \in 1..Len(Checks),
       outcome \in {"pass", "raised"} :
        CheckCompletes(r, i, outcome) /\ UNCHANGED botOther
Gathered == \E r \in 1..MaxRuns : RunDiagnostics(r) /\ UNCHANGED botOther
Analyzed == \E r \in 1..MaxRuns : AnalyzeDiagnostics(r) /\ UNCHANGED botOther
ClockTick == Tick /\ UNCHANGED botOther
NextBot == Start \/ Check \/ Gathered \/ Analyzed \/ ClockTick
\* AzureSupportBot(subscription_id, openai_api_key): no session yet
InitBot ==
    /\ power = "running"
    /\ rules = {}
    /\ cliPre = [power |-> power, rules |-> rules]
    /\ report = NoReport
    /\ writes = <<>>
    /\ lastFix = NoFix
    /\ prevFix = NoFix
    /\ history = <<>>
    /\ agent = NoAgent
    /\ store = <<>>
    /\ request = NoRequest
    /\ bot = NoBot
SpecBot == InitBot /\ [][NextBot]_vars

\* C25: a run analyses only after each of its three checks has returned or
\* raised, and its diagnostics then hold the outcome of each check exactly
\* once, in the order of the checks, whatever the other checks did.
C25_Theorem ==
    \A r \in 1..MaxRuns :
        bot.runs[r].pc \in {"analyze", "done"} =>
            /\ \A i \in 1..Len(Checks) : bot.runs[r].tasks[i] # "pending"
            /\ Len(bot.runs[r].diagnostics) = Len(Checks)
            /\ \A i \in 1..Len(Checks) :
                  bot.runs[r].diagnostics[i].check_name =
                      IF bot.runs[r].tasks[i] = "raised" THEN "System Error"
                      ELSE Checks[i]
\* the second check raised, the other two results are in the diagnostics
C25_Witness ==
    \E r \in 1..MaxRuns :
        /\ bot.runs[r].pc = "done"
        /\ bot.runs[r].tasks[2] = "raised"
        /\ bot.runs[r].diagnostics[1].check_name = "VM Status"
        /\ bot.runs[r].diagnostics[3].check_name = "VM Connectivity"

\* C29: every run owns its session: the id a finished run returned leads,
\* through get_session_results, to that run's own session, and no two runs
\* were given the same id.
C29_Claim ==
    \A r \in 1..MaxRuns :
        bot.runs[r].pc = "done" =>
            /\ GetSessionResults(bot.runs[r].returned) = r
            /\ \A q \in 1..MaxRuns :
                  (q # r /\ bot.runs[q].pc # "idle")
                      => bot.runs[q].session_id # bot.runs[r].session_id

\* a diagnosis that ran its collectors and ended, and the text it answered
Diagnosed == /\ request.handler = "diagnostic"
             /\ request.status = "diagnostic_complete"
             /\ request.collectors # <<>>
             /\ request.diag = "ok"
Answer == history[Len(history)]

\* C26: a diagnosis whose power collector returned "stopped" recommends to
\* start the VM, and one whose rule check returned port 3389 not allowed
\* recommends the allow rule.
C26_Claim ==
    Diagnosed =>
        /\ ("vm_health" \notin request.failed /\ power = "stopped")
              => "start the vm" \in Answer
        /\ ("nsg_rules" \notin request.failed /\ ~PluginRdpAllowed(rules))
              => {"nsg rule", "rdp"} \subseteq Answer

\* C27: the rule check of the network-checks plugin gives, on the rule set a
\* command-line run analysed, the rdp_allowed the run reported, which is
\* that some inbound rule on port 3389 (exactly, or in its list) allows.
C27_Claim ==
    (report.status = "completed" /\ ~report.nsg_info.error) =>
        /\ report.nsg_info.rdp_allowed =
               (\E r \in cliPre.rules : MatchesPort(r) /\ r.access = "Allow")
        /\ PluginRdpAllowed(cliPre.rules) = report.nsg_info.rdp_allowed

\* C28: a plan executed on the confirmation that follows a diagnosis is the
\* plan of that diagnosis: the actions its answer recommended, nothing from
\* an earlier diagnosis or from other messages.
C28_Claim ==
    [][(/\ Diagnosed
        /\ request'.n # request.n
        /\ request'.handler = "resolution"
        /\ agent'.status = "resolution_complete")
          => agent'.plan = MessageActions(Answer)]_vars

\* C30: after a request that loaded the conversation, appended its two
\* messages and saved, the store holds every message of the history once:
\* the conversation read back is the history that was saved.
C30_Claim ==
    (/\ request.n > 0
     /\ request.store_writes > 0
     /\ Len(history) = Len(request.store_before) + 2)
        => GetConversation(store, TRUE) = history
====
